---- MODULE Spec2Model ----
(***************************************************************************)
(* Real-time entity synchronisation of the FlowSync front-end.             *)
(*                                                                         *)
(* Two generations of the client-side store live in the sources:           *)
(*   - stores/trafficStore.js (updateState, toggleSimulation) fed by a     *)
(*     module-level WebSocket and by the useWebSocket hook mounted by App; *)
(*   - the earlier websocket.js store (onMessage) fed by the               *)
(*     react-use-websocket hook useTrafficWebSocket.                       *)
(* Both keep the collections vehicles, trafficLights and emergencies.      *)
(***************************************************************************)
EXTENDS Integers, Sequences, FiniteSets, TLC

(***************************************************************************)
(* Bounds of the model.                                                    *)
(***************************************************************************)
\* longest emergencies list explored (the code appends without limit)
MaxEmergencies == 2
\* exceptions escaping a message handler that are counted
MaxUncaught == 4
\* toggleSimulation is called up to MaxToggles times
MaxToggles == 3

(***************************************************************************)
(* Program constants.                                                      *)
(***************************************************************************)
\* useWebSocket(..., { reconnectAttempts: 10 })
reconnectAttempts == 10
\* useWebSocket(..., { reconnectInterval: 3000 })
reconnectInterval == 3000
\* avgSpeed: 45
InitialAvgSpeed == 45

(***************************************************************************)
(* Messages.  A decoded message is a JavaScript object; the model gives    *)
(* every object the same fields and leaves the fields a message does not   *)
(* carry at their blank value.  idx is the arrival index an event carries. *)
(***************************************************************************)
VehicleIds == {7, 8}
IncidentIds == {1, 2}
LightIds == {3}
\* arrival index carried by every end event
EndIdx == 7

LatOf(n) == CASE n = 1 -> 0 [] n = 2 -> 9 [] OTHER -> 1
LngOf(n) == CASE n = 1 -> 0 [] n = 2 -> 9 [] OTHER -> 1
SpeedOf(n) == CASE n = 1 -> 10 [] n = 2 -> 1 [] OTHER -> 12

Blank ==
  [type |-> "", id |-> 0, idx |-> 0, lat |-> 0, lng |-> 0, speed |-> 0,
   isEmergency |-> FALSE, state |-> ""]

VehicleUpdate(i, n) ==
  [Blank EXCEPT !.type = "vehicle_update", !.id = i, !.idx = n,
                !.lat = LatOf(n), !.lng = LngOf(n), !.speed = SpeedOf(n),
                !.isEmergency = (i = 8)]

TrafficLightMsg(i, s) ==
  [Blank EXCEPT !.type = "traffic_light", !.id = i, !.state = s]

EmergencyStart(k, n) ==
  [Blank EXCEPT !.type = "emergency_start", !.id = k, !.idx = n]

\* the end-incident event of the protocol; updateState has no case for it
EmergencyEnd(k) ==
  [Blank EXCEPT !.type = "emergency_end", !.id = k, !.idx = EndIdx]

\* a well-formed message of a type this client does not know
UnknownMsg ==
  [Blank EXCEPT !.type = "weather_update", !.id = 1, !.idx = 4]

\* the events of the stream: three updates of vehicle 7 and one of vehicle 8,
\* two starts of incident 1 and one of incident 2, an end of either incident
VehicleUpdates ==
  {VehicleUpdate(7, 1), VehicleUpdate(7, 2), VehicleUpdate(7, 3), VehicleUpdate(8, 1)}
TrafficLightMsgs == {TrafficLightMsg(i, s) : i \in LightIds, s \in {"red", "green"}}
EmergencyStarts == {EmergencyStart(1, 5), EmergencyStart(1, 6), EmergencyStart(2, 5)}
EmergencyEnds == {EmergencyEnd(k) : k \in IncidentIds}
Objects ==
  VehicleUpdates \cup TrafficLightMsgs \cup EmergencyStarts
    \cup EmergencyEnds \cup {UnknownMsg}

\* the value of a property the message does not carry (undefined)
Undef == -1

\* the first update of vehicle 7 with one of its required fields left out
IncompleteUpdates ==
  {[VehicleUpdate(7, 1) EXCEPT !.id = Undef],
   [VehicleUpdate(7, 1) EXCEPT !.lat = Undef],
   [VehicleUpdate(7, 1) EXCEPT !.lng = Undef],
   [VehicleUpdate(7, 1) EXCEPT !.speed = Undef]}

\* a vehicle update carries identifier, both coordinates and speed
Complete(d) ==
  d.id # Undef /\ d.lat # Undef /\ d.lng # Undef /\ d.speed # Undef

(***************************************************************************)
(* Raw payloads (event.data): text that is not JSON, the JSON text "null", *)
(* or the JSON text of an object.  "undefined" is the value read from a    *)
(* property that does not exist.                                           *)
(***************************************************************************)
Garbage == [syntax |-> "garbage", body |-> Blank]
JsonNull == [syntax |-> "null", body |-> Blank]
Undefined == [syntax |-> "undefined", body |-> Blank]
JsonText(obj) == [syntax |-> "object", body |-> obj]
Payloads == {Garbage, JsonNull} \cup {JsonText(o) : o \in Objects}
\* the stream of vehicle updates, complete and incomplete
FieldPayloads ==
  {Garbage} \cup {JsonText(o) : o \in VehicleUpdates \cup IncompleteUpdates}

\* JSON.parse: throws a SyntaxError unless the text is JSON
JSONparse(raw) ==
  IF raw.syntax = "object" THEN [threw |-> FALSE, isNull |-> FALSE, value |-> raw.body]
  ELSE IF raw.syntax = "null" THEN [threw |-> FALSE, isNull |-> TRUE, value |-> Blank]
  ELSE [threw |-> TRUE, isNull |-> FALSE, value |-> Blank]

VARIABLES
  vehicles,            \* store.vehicles
  trafficLights,       \* store.trafficLights
  emergencies,         \* store.emergencies
  congestion,          \* store.congestion
  avgSpeed,            \* store.avgSpeed
  isSimulationActive,  \* store.isSimulationActive
  sirenPlays,          \* calls of sirenSound.play()
  sirenStops,          \* calls of sirenSound.stop()
  trafficSoundOn,      \* trafficSound is playing
  moduleWs,            \* the WebSocket of trafficStore.js
  hookWs,              \* the WebSocket of the mounted useWebSocket effect
  readyState,          \* the react-use-websocket connection of useTrafficWebSocket
  reconnectCount,      \* its reconnect attempts since the last open
  reconnectTimer,      \* delay of its pending reconnect timer, 0 when none
  uncaught,            \* exceptions that escaped a message handler
  notified,            \* notifications of the store's listeners made by the last step
  heap,                \* the arrays the store has created, by address
  refs,                \* the arrays the state's three collections point to
  held,                \* the arrays a consumer obtained from the store, 0 for none
  entered,             \* per socket, the payload its onmessage is running on
  best,                \* history: highest arrival index applied per vehicle
  active,              \* history: incident started and not yet ended
  begins,              \* history: siren play calls per incident since its last end
  endIdx,              \* history: highest arrival index of an applied end per incident
  calls,               \* history: the calls of toggleSimulation made so far
  lastEvent            \* history: what the last step handled

storeVars == <<vehicles, trafficLights, emergencies, congestion, avgSpeed,
               isSimulationActive>>
audioVars == <<sirenPlays, sirenStops, trafficSoundOn>>
wsVars == <<moduleWs, hookWs>>
rwsVars == <<readyState, reconnectCount, reconnectTimer>>
histVars == <<best, active, begins, endIdx, calls>>
heapVars == <<heap, refs, held>>
vars == <<vehicles, trafficLights, emergencies, congestion, avgSpeed,
          isSimulationActive, sirenPlays, sirenStops, trafficSoundOn,
          moduleWs, hookWs, readyState, reconnectCount, reconnectTimer,
          uncaught, notified, heap, refs, held, entered,
          best, active, begins, endIdx, calls, lastEvent>>

(***************************************************************************)
(* Sequence helpers for Array.prototype.filter and map.                    *)
(***************************************************************************)
\* the filter with its test inverted (v.id === data.id)
RECURSIVE FilterKeepId(_, _)
FilterKeepId(seq, i) ==
  IF seq = <<>> THEN <<>>
  ELSE IF Head(seq).id = i THEN <<Head(seq)>> \o FilterKeepId(Tail(seq), i)
       ELSE FilterKeepId(Tail(seq), i)

RECURSIVE FilterOutId(_, _)
FilterOutId(seq, i) ==
  IF seq = <<>> THEN <<>>
  ELSE IF Head(seq).id # i THEN <<Head(seq)>> \o FilterOutId(Tail(seq), i)
       ELSE FilterOutId(Tail(seq), i)

\* the light handled as vehicle_update handles a vehicle: its entry is
\* filtered out and appended with the new state
MapLightsAppend(seq, data) ==
  LET same == SelectSeq(seq, LAMBDA l : l.id = data.id) IN
    SelectSeq(seq, LAMBDA l : l.id # data.id) \o
      [j \in 1..Len(same) |-> [same[j] EXCEPT !.state = data.state]]

\* state.trafficLights.map(light =>
\*   light.id === data.id ? { ...light, state: data.state } : light)
MapLights(seq, data) ==
  [j \in 1..Len(seq) |->
     IF seq[j].id = data.id THEN [seq[j] EXCEPT !.state = data.state] ELSE seq[j]]

(***************************************************************************)
(* The store of trafficStore.js as a value: the entity collections and the *)
(* call counters of its sirenSound.                                        *)
(***************************************************************************)
Store ==
  [vehicles |-> vehicles, trafficLights |-> trafficLights,
   emergencies |-> emergencies, sirenPlays |-> sirenPlays,
   sirenStops |-> sirenStops]

VehicleEntity(data) ==
  [id |-> data.id, position |-> <<data.lat, data.lng>>, speed |-> data.speed,
   type |-> IF data.isEmergency THEN "emergency" ELSE "normal"]

\* updateState with a default label on its last case: an unrecognised tag is
\* handled as emergency_start
updateStateDefaultCase(st, data) ==
  CASE data.type = "vehicle_update" ->
         [st EXCEPT !.vehicles =
            FilterOutId(st.vehicles, data.id) \o <<VehicleEntity(data)>>]
    [] data.type = "traffic_light" ->
         [st EXCEPT !.trafficLights = MapLights(st.trafficLights, data)]
    [] OTHER ->
         [st EXCEPT !.sirenPlays = st.sirenPlays + 1,
                    !.emergencies = st.emergencies \o <<data>>]

\* updateState(data) of trafficStore.js on a decoded object
updateState(st, data) ==
  CASE data.type = "vehicle_update" ->
         [st EXCEPT !.vehicles =
            FilterOutId(st.vehicles, data.id) \o <<VehicleEntity(data)>>]
    [] data.type = "traffic_light" ->
         [st EXCEPT !.trafficLights = MapLights(st.trafficLights, data)]
    [] data.type = "emergency_start" ->
         [st EXCEPT !.sirenPlays = st.sirenPlays + 1,
                    !.emergencies = st.emergencies \o <<data>>]
    [] OTHER -> st

\* try { data = JSON.parse(event.data); updateState(data) } catch { console.error }
\* reading data.type of null throws a TypeError before any set()
wsOnMessage(st, raw) ==
  LET p == JSONparse(raw) IN
    IF p.threw \/ p.isNull THEN [threw |-> FALSE, store |-> st]
    ELSE [threw |-> FALSE, store |-> updateState(st, p.value)]


\* the calls of set() updateState makes for data: one in each of its cases.
\* The updater passed to set returns a new object, so every call replaces
\* the state and notifies the listeners of the store once.
setCalls(data) ==
  IF data.type \in {"vehicle_update", "traffic_light", "emergency_start"}
  THEN 1 ELSE 0

wsSetCalls(raw) ==
  LET p == JSONparse(raw) IN
    IF p.threw \/ p.isNull THEN 0 ELSE setCalls(p.value)

(***************************************************************************)
(* The earlier store of websocket.js.  Its onMessage reads msg.data, so    *)
(* its argument is a JavaScript value that is either a MessageEvent or a   *)
(* string.                                                                 *)
(***************************************************************************)
MessageEvent(raw) == [isEvent |-> TRUE, data |-> raw]
StringValue(raw) == [isEvent |-> FALSE, data |-> raw]

\* msg.data: the payload of an event, undefined on a string
DataProp(msg) == IF msg.isEvent THEN msg.data ELSE Undefined

\* onMessage(msg) of the websocket.js store: no try/catch around JSON.parse
onMessage(st, msg) ==
  LET p == JSONparse(DataProp(msg)) IN
    IF p.threw \/ p.isNull THEN [threw |-> TRUE, store |-> st]
    ELSE LET data == p.value IN
      CASE data.type = "vehicle_update" ->
             [threw |-> FALSE,
              store |-> [st EXCEPT !.vehicles =
                           FilterOutId(st.vehicles, data.id) \o <<data>>]]
        [] data.type = "traffic_light" ->
             [threw |-> FALSE,
              store |-> [st EXCEPT !.trafficLights = MapLights(st.trafficLights, data)]]
        [] data.type = "emergency" ->
             [threw |-> FALSE,
              store |-> [st EXCEPT !.sirenPlays = st.sirenPlays + 1,
                                   !.emergencies = st.emergencies \o <<data>>]]
        [] OTHER -> [threw |-> FALSE, store |-> st]

(***************************************************************************)
(* Arrays as objects.  create(...) makes three arrays; every array the     *)
(* store builds later is an object of its own, and a consumer that read a  *)
(* collection keeps the array it was given.                                *)
(***************************************************************************)
\* an array is named by its collection and a cell: one cell for the array the
\* state points to and one for an array a consumer still holds
CellsPerCollection == 2
Cells == 1..CellsPerCollection
Collections == {"vehicles", "trafficLights", "emergencies"}
InitialRefs == [c \in Collections |-> 1]
NothingHeld == [c \in Collections |-> 0]
InitialHeap(lights) ==
  [c \in Collections |->
     [k \in Cells |-> IF c = "trafficLights" /\ k = 1 THEN lights ELSE <<>>]]

\* the cell of a new array of collection c: the lowest one no consumer holds
\* (the array the state pointed to gives its cell up unless it is held)
Fresh(c, h) ==
  CHOOSE k \in Cells : k # h[c] /\ \A j \in Cells : j # h[c] => k <= j

\* arrays nothing points to any more are reclaimed
Collect(hp, r, h) ==
  [c \in Collections |->
     [k \in Cells |-> IF k \in {r[c], h[c]} THEN hp[c][k] ELSE <<>>]]

\* the collection whose array the handling of data replaces, "none" if no case
Written(data) ==
  CASE data.type = "vehicle_update" -> "vehicles"
    [] data.type = "traffic_light" -> "trafficLights"
    [] data.type = "emergency_start" -> "emergencies"
    [] OTHER -> "none"

\* the content written into the array the state already points to
\* (state.vehicles.push(...), light.state = ...)
WriteCollectionInPlace(hp, r, h, c, content) ==
  [heap |-> [hp EXCEPT ![c][r[c]] = content], refs |-> r]

\* set(state => ({ c: [...] })): spread, filter and map build a new array and
\* the state is pointed to it
WriteCollection(hp, r, h, c, content) ==
  LET k == Fresh(c, h) IN
    [heap |-> [hp EXCEPT ![c][k] = content], refs |-> [r EXCEPT ![c] = k]]

\* no onmessage is running
Idle == [syntax |-> "idle", body |-> Blank]
Sockets == {"module", "hook"}

\* the calls of set() onMessage makes: one in each case it reaches
onMessageSetCalls(msg) ==
  LET p == JSONparse(DataProp(msg)) IN
    IF p.threw \/ p.isNull THEN 0
    ELSE IF p.value.type \in {"vehicle_update", "traffic_light", "emergency"}
         THEN 1 ELSE 0

(***************************************************************************)
(* Initial state: create(...) of the store, the module-level               *)
(* new WebSocket(...), App not yet mounted, the react-use-websocket        *)
(* connection being established.                                           *)
(***************************************************************************)
Init ==
  /\ vehicles = <<>>
  /\ trafficLights = <<>>
  /\ emergencies = <<>>
  /\ congestion = 0
  /\ avgSpeed = InitialAvgSpeed
  /\ isSimulationActive = FALSE
  /\ sirenPlays = 0
  /\ sirenStops = 0
  /\ trafficSoundOn = FALSE
  /\ moduleWs = "open"
  /\ hookWs = "none"
  /\ readyState = "connecting"
  /\ reconnectCount = 0
  /\ reconnectTimer = 0
  /\ uncaught = 0
  /\ notified = 0
  /\ heap = InitialHeap(<<>>)
  /\ refs = InitialRefs
  /\ held = NothingHeld
  /\ entered = [w \in Sockets |-> Idle]
  /\ best = [i \in VehicleIds |-> 0]
  /\ active = [k \in IncidentIds |-> FALSE]
  /\ begins = [k \in IncidentIds |-> 0]
  /\ endIdx = [k \in IncidentIds |-> 0]
  /\ calls = 0
  /\ lastEvent = "none"

(***************************************************************************)
(* History of the events a handler has decoded and applied; ok tells       *)
(* whether the handler obtained an object from the payload.                *)
(***************************************************************************)
Max(a, b) == IF a >= b THEN a ELSE b

Decoded(raw) == raw.syntax = "object"

\* the tag recorded for a handled payload
EventTag(raw) == IF Decoded(raw) THEN raw.body.type ELSE "malformed"

Record(raw, ok, playsBefore, playsAfter) ==
  LET d == raw.body IN
    /\ lastEvent' = EventTag(raw)
    /\ best' = IF ok /\ d.type = "vehicle_update" /\ Complete(d)
               THEN [best EXCEPT ![d.id] = Max(@, d.idx)] ELSE best
    /\ active' = IF ok /\ d.type = "emergency_start"
                 THEN [active EXCEPT ![d.id] = TRUE]
                 ELSE IF ok /\ d.type = "emergency_end"
                 THEN [active EXCEPT ![d.id] = FALSE] ELSE active
    /\ begins' = IF ok /\ d.type = "emergency_start"
                 THEN [begins EXCEPT ![d.id] = @ + (playsAfter - playsBefore)]
                 ELSE IF ok /\ d.type = "emergency_end"
                 THEN [begins EXCEPT ![d.id] = 0] ELSE begins
    /\ endIdx' = IF ok /\ d.type = "emergency_end"
                 THEN [endIdx EXCEPT ![d.id] = Max(@, d.idx)] ELSE endIdx
    /\ calls' = calls

\* the emergencies list is explored up to MaxEmergencies entries
WithinBounds(raw) ==
  (Decoded(raw) /\ raw.body.type = "emergency_start")
     => Len(emergencies) < MaxEmergencies

\* set(partial, true): the state is replaced by the partial instead of merged
\* with it, the fields the partial does not name are lost
CommitReplacing(r) ==
  /\ vehicles' = r.store.vehicles
  /\ trafficLights' = r.store.trafficLights
  /\ emergencies' = r.store.emergencies
  /\ sirenPlays' = r.store.sirenPlays
  /\ sirenStops' = r.store.sirenStops
  /\ uncaught' = uncaught + (IF r.threw THEN 1 ELSE 0)
  /\ congestion' = Undef
  /\ avgSpeed' = Undef
  /\ UNCHANGED <<isSimulationActive, trafficSoundOn>>

\* a handler result written back to the store: set(partial) merges the
\* partial into the state
Commit(r) ==
  /\ vehicles' = r.store.vehicles
  /\ trafficLights' = r.store.trafficLights
  /\ emergencies' = r.store.emergencies
  /\ sirenPlays' = r.store.sirenPlays
  /\ sirenStops' = r.store.sirenStops
  /\ uncaught' = uncaught + (IF r.threw THEN 1 ELSE 0)
  /\ UNCHANGED <<congestion, avgSpeed, isSimulationActive, trafficSoundOn>>

(***************************************************************************)
(* trafficStore.js and utils/websocket.js                                  *)
(***************************************************************************)
\* ws.onmessage of the module-level socket of trafficStore.js
ModuleWsOnMessage(raw) ==
  /\ moduleWs = "open"
  /\ WithinBounds(raw)
  /\ LET r == wsOnMessage(Store, raw) IN
       Commit(r) /\ Record(raw, Decoded(raw), sirenPlays, r.store.sirenPlays)
  /\ notified' = wsSetCalls(raw)
  /\ UNCHANGED <<heapVars, entered>>
  /\ UNCHANGED <<wsVars, rwsVars>>

\* ws.onmessage of the socket opened by the useWebSocket effect
HookWsOnMessage(raw) ==
  /\ hookWs = "open"
  /\ WithinBounds(raw)
  /\ LET r == wsOnMessage(Store, raw) IN
       Commit(r) /\ Record(raw, Decoded(raw), sirenPlays, r.store.sirenPlays)
  /\ notified' = wsSetCalls(raw)
  /\ UNCHANGED <<heapVars, entered>>
  /\ UNCHANGED <<wsVars, rwsVars>>

\* App mounts: the effect of useWebSocket opens a socket
AppMount ==
  /\ hookWs = "none"
  /\ hookWs' = "open"
  /\ lastEvent' = "none"
  /\ notified' = 0
  /\ UNCHANGED <<heapVars, entered>>
  /\ UNCHANGED <<storeVars, audioVars, moduleWs, rwsVars, uncaught, histVars>>

\* App unmounts: the effect's cleanup calls ws.close()
AppUnmount ==
  /\ hookWs # "none"
  /\ hookWs' = "none"
  /\ lastEvent' = "none"
  /\ notified' = 0
  /\ UNCHANGED <<heapVars, entered>>
  /\ UNCHANGED <<storeVars, audioVars, moduleWs, rwsVars, uncaught, histVars>>

\* the server or the network closes a socket; neither file reopens it
ModuleWsClosed ==
  /\ moduleWs = "open"
  /\ moduleWs' = "closed"
  /\ lastEvent' = "none"
  /\ notified' = 0
  /\ UNCHANGED <<heapVars, entered>>
  /\ UNCHANGED <<storeVars, audioVars, hookWs, rwsVars, uncaught, histVars>>

HookWsClosed ==
  /\ hookWs = "open"
  /\ hookWs' = "closed"
  /\ lastEvent' = "none"
  /\ notified' = 0
  /\ UNCHANGED <<heapVars, entered>>
  /\ UNCHANGED <<storeVars, audioVars, moduleWs, rwsVars, uncaught, histVars>>

\* toggleSimulation with the two branches of its conditional exchanged
toggleSimulationExchanged ==
  LET isActive == ~isSimulationActive IN
    /\ calls < MaxToggles
    /\ isSimulationActive' = isActive
    /\ trafficSoundOn' = ~isActive
    /\ calls' = calls + 1
    /\ lastEvent' = "none"
    /\ notified' = 1
    /\ UNCHANGED <<heapVars, entered>>
    /\ UNCHANGED <<vehicles, trafficLights, emergencies, congestion, avgSpeed,
                   sirenPlays, sirenStops, wsVars, rwsVars, uncaught,
                   best, active, begins, endIdx>>

\* toggleSimulation of trafficStore.js; its set({...}) notifies the listeners
toggleSimulation ==
  LET isActive == ~isSimulationActive IN
    /\ calls < MaxToggles
    /\ isSimulationActive' = isActive
    /\ trafficSoundOn' = isActive
    /\ calls' = calls + 1
    /\ lastEvent' = "none"
    /\ notified' = 1
    /\ UNCHANGED <<heapVars, entered>>
    /\ UNCHANGED <<vehicles, trafficLights, emergencies, congestion, avgSpeed,
                   sirenPlays, sirenStops, wsVars, rwsVars, uncaught,
                   best, active, begins, endIdx>>

Next ==
  \/ \E raw \in Payloads : ModuleWsOnMessage(raw)
  \/ \E raw \in Payloads : HookWsOnMessage(raw)
  \/ AppMount
  \/ AppUnmount
  \/ ModuleWsClosed
  \/ HookWsClosed
  \/ toggleSimulation

Spec == Init /\ [][Next]_vars

(***************************************************************************)
(* updateState on stores that hold traffic lights.  The light entity has   *)
(* the fields the TrafficLight component reads: id, position and state.    *)
(***************************************************************************)
Light(i, pos, st) == [id |-> i, position |-> pos, state |-> st]

\* lists of lights 3 and 4; the stream only carries events of light 3
LightLists ==
  {<<>>,
   <<Light(3, <<0, 0>>, "red")>>,
   <<Light(3, <<0, 0>>, "red"), Light(4, <<1, 0>>, "green")>>,
   <<Light(4, <<1, 0>>, "yellow"), Light(3, <<0, 0>>, "green")>>}

LightPayloads ==
  {Garbage} \cup
  {JsonText(o) : o \in TrafficLightMsgs \cup
     {VehicleUpdate(7, 1), VehicleUpdate(7, 2), VehicleUpdate(8, 1),
      EmergencyStart(1, 5), EmergencyEnd(1), UnknownMsg}}

InitLights ==
  /\ vehicles = <<>>
  /\ trafficLights \in LightLists
  /\ emergencies = <<>>
  /\ congestion = 0
  /\ avgSpeed = InitialAvgSpeed
  /\ isSimulationActive = FALSE
  /\ sirenPlays = 0
  /\ sirenStops = 0
  /\ trafficSoundOn = FALSE
  /\ moduleWs = "open"
  /\ hookWs = "none"
  /\ readyState = "connecting"
  /\ reconnectCount = 0
  /\ reconnectTimer = 0
  /\ uncaught = 0
  /\ notified = 0
  /\ heap = InitialHeap(trafficLights)
  /\ refs = InitialRefs
  /\ held = NothingHeld
  /\ entered = [w \in Sockets |-> Idle]
  /\ best = [i \in VehicleIds |-> 0]
  /\ active = [k \in IncidentIds |-> FALSE]
  /\ begins = [k \in IncidentIds |-> 0]
  /\ endIdx = [k \in IncidentIds |-> 0]
  /\ calls = 0
  /\ lastEvent = "none"

NextLights ==
  \/ \E raw \in LightPayloads : ModuleWsOnMessage(raw)
  \/ \E raw \in LightPayloads : HookWsOnMessage(raw)
  \/ AppMount
  \/ AppUnmount
  \/ ModuleWsClosed
  \/ HookWsClosed
  \/ toggleSimulation

SpecLights == InitLights /\ [][NextLights]_vars

\* the same handlers on a stream of complete and incomplete vehicle updates
NextFields ==
  \/ \E raw \in FieldPayloads : ModuleWsOnMessage(raw)
  \/ \E raw \in FieldPayloads : HookWsOnMessage(raw)
  \/ AppMount

SpecFields == Init /\ [][NextFields]_vars

(***************************************************************************)
(* The store with its arrays as objects: the handler of the module's       *)
(* socket with the array each case builds, and the components that read a  *)
(* collection through a selector and keep the array until they render      *)
(* again.                                                                  *)
(***************************************************************************)
ArrayPayloads ==
  {Garbage} \cup
  {JsonText(o) : o \in TrafficLightMsgs \cup
     {VehicleUpdate(7, 1), VehicleUpdate(8, 1), EmergencyStart(1, 5),
      UnknownMsg}}

\* ws.onmessage of the module's socket, with the arrays updateState builds
ModuleWsOnMessageArrays(raw) ==
  /\ moduleWs = "open"
  /\ WithinBounds(raw)
  /\ LET r == wsOnMessage(Store, raw)
         c == IF Decoded(raw) THEN Written(raw.body) ELSE "none"
         w == IF c = "none"
                THEN [heap |-> heap, refs |-> refs]
                ELSE WriteCollection(heap, refs, held, c, r.store[c])
     IN
       /\ Commit(r) /\ Record(raw, Decoded(raw), sirenPlays, r.store.sirenPlays)
       /\ refs' = w.refs
       /\ heap' = Collect(w.heap, w.refs, held)
  /\ notified' = wsSetCalls(raw)
  /\ UNCHANGED <<held, entered, wsVars, rwsVars>>

\* a component renders: useTrafficStore() hands it the state, and with it the
\* arrays the state points to
Render ==
  /\ held' = refs
  /\ heap' = Collect(heap, refs, held')
  /\ lastEvent' = "none"
  /\ notified' = 0
  /\ UNCHANGED <<refs, entered>>
  /\ UNCHANGED <<storeVars, audioVars, wsVars, rwsVars, uncaught, histVars>>

NextArrays ==
  \/ \E raw \in ArrayPayloads : ModuleWsOnMessageArrays(raw)
  \/ Render

SpecArrays == InitLights /\ [][NextArrays]_vars

(***************************************************************************)
(* The handlers as tasks of the event loop.  A message event enters the    *)
(* socket's onmessage and the handler returns after JSON.parse and         *)
(* updateState (or after its catch); the loop takes the next task when no  *)
(* handler is on the stack.                                                *)
(***************************************************************************)
LoopPayloads ==
  {Garbage} \cup
  {JsonText(o) : o \in
     {VehicleUpdate(7, 1), VehicleUpdate(7, 2), VehicleUpdate(8, 1),
      TrafficLightMsg(3, "red"), EmergencyStart(1, 5), UnknownMsg}}

SocketState(w) == IF w = "module" THEN moduleWs ELSE hookWs

\* a handler that awaits between JSON.parse and updateState
onmessageAwaitsAfterParse == TRUE

\* ws.onmessage is a plain function: JSON.parse, getState, updateState and
\* set are calls that return before the handler does
onmessageAwaits == FALSE

\* the loop may start a task: every handler entered has returned or is suspended
CanDispatch == \A w \in Sockets : entered[w] = Idle \/ onmessageAwaits

\* a message event of socket w is dispatched: its onmessage is entered
EnterOnMessage(w, raw) ==
  /\ SocketState(w) = "open"
  /\ entered[w] = Idle
  /\ CanDispatch
  /\ WithinBounds(raw)
  /\ entered' = [entered EXCEPT ![w] = raw]
  /\ lastEvent' = "none"
  /\ notified' = 0
  /\ UNCHANGED <<storeVars, audioVars, wsVars, rwsVars, uncaught, histVars>>
  /\ UNCHANGED heapVars

\* the handler entered on socket w runs to its end
ReturnFromOnMessage(w) ==
  /\ entered[w] # Idle
  /\ LET raw == entered[w]
         r == wsOnMessage(Store, raw)
     IN
       /\ Commit(r) /\ Record(raw, Decoded(raw), sirenPlays, r.store.sirenPlays)
       /\ notified' = wsSetCalls(raw)
  /\ entered' = [entered EXCEPT ![w] = Idle]
  /\ UNCHANGED <<heapVars, wsVars, rwsVars>>

\* the effect of useWebSocket is a task of the same loop
MountTask == CanDispatch /\ AppMount

NextLoop ==
  \/ \E w \in Sockets, raw \in LoopPayloads : EnterOnMessage(w, raw)
  \/ \E w \in Sockets : ReturnFromOnMessage(w)
  \/ MountTask

SpecLoop == Init /\ [][NextLoop]_vars


(***************************************************************************)
(* websocket.js: useTrafficWebSocket keeps one react-use-websocket         *)
(* connection with the options shouldReconnect, reconnectAttempts and      *)
(* reconnectInterval.  With these options the library, on every close,     *)
(* asks shouldReconnect and, while fewer than reconnectAttempts attempts   *)
(* were made since the last open, starts a timer of reconnectInterval      *)
(* whose expiry counts one attempt and connects again; an open resets the  *)
(* count.                                                                  *)
(***************************************************************************)
\* shouldReconnect: () => true
shouldReconnect == TRUE

RwsOnOpen ==
  /\ readyState = "connecting"
  /\ readyState' = "open"
  /\ reconnectCount' = 0
  /\ lastEvent' = "none"
  /\ notified' = 0
  /\ UNCHANGED <<heapVars, entered>>
  /\ UNCHANGED <<storeVars, audioVars, wsVars, reconnectTimer, uncaught, histVars>>

\* the decision taken on close: the delay of the timer to start, 0 for none
RetryDelayNoCap(count) == IF shouldReconnect THEN reconnectInterval ELSE 0

RetryDelay(count) ==
  IF shouldReconnect /\ count < reconnectAttempts THEN reconnectInterval ELSE 0

RwsOnClose ==
  /\ readyState \in {"connecting", "open"}
  /\ readyState' = "closed"
  /\ reconnectTimer' = RetryDelay(reconnectCount)
  /\ lastEvent' = "none"
  /\ notified' = 0
  /\ UNCHANGED <<heapVars, entered>>
  /\ UNCHANGED <<storeVars, audioVars, wsVars, reconnectCount, uncaught, histVars>>

RwsReconnect ==
  /\ reconnectTimer # 0
  /\ reconnectTimer' = 0
  /\ reconnectCount' = reconnectCount + 1
  /\ readyState' = "connecting"
  /\ lastEvent' = "none"
  /\ notified' = 0
  /\ UNCHANGED <<heapVars, entered>>
  /\ UNCHANGED <<storeVars, audioVars, wsVars, uncaught, histVars>>

\* onMessage: (e) => onMessage(e.data): the store's handler gets the text
RwsOnMessage(raw) ==
  /\ readyState = "open"
  /\ uncaught < MaxUncaught
  /\ WithinBounds(raw)
  /\ LET msg == StringValue(MessageEvent(raw).data)
         p == JSONparse(DataProp(msg))
         r == onMessage(Store, msg)
     IN  /\ Commit(r)
         /\ Record(raw, ~p.threw /\ ~p.isNull, sirenPlays, r.store.sirenPlays)
         /\ notified' = onMessageSetCalls(msg)
  /\ UNCHANGED <<heapVars, entered>>
  /\ UNCHANGED <<wsVars, rwsVars>>

NextRUW ==
  \/ RwsOnOpen
  \/ RwsOnClose
  \/ RwsReconnect
  \/ \E raw \in Payloads : RwsOnMessage(raw)

SpecRUW == Init /\ [][NextRUW]_vars


(***************************************************************************)
(* Properties.                                                             *)
(***************************************************************************)
DistinctIds(seq) == \A i, j \in 1..Len(seq) : seq[i].id = seq[j].id => i = j
EntriesFor(seq, k) == {j \in 1..Len(seq) : seq[j].id = k}
Snapshot(st) ==
  [vehicles |-> st.vehicles, trafficLights |-> st.trafficLights,
   emergencies |-> st.emergencies]

\* C1: for every vehicle key, the stored entity is the payload of the applied
\* update with the highest arrival index, whatever the delivery order (an
\* update with a lower index than one already applied changes nothing).
ReorderInvariance ==
  \A i \in VehicleIds :
    best[i] > 0 =>
      \E j \in 1..Len(vehicles) :
        vehicles[j] = VehicleEntity(VehicleUpdate(i, best[i]))

\* C2: no collection of the store ever holds two entries with one identifier.
NoDuplicateIds ==
  /\ DistinctIds(vehicles)
  /\ DistinctIds(trafficLights)
  /\ DistinctIds(emergencies)

\* C3: in every store state and for every payload, handling the payload twice
\* in a row gives the same snapshot as handling it once.
ApplyIdempotent ==
  \A raw \in Payloads :
    LET once == wsOnMessage(Store, raw).store
        twice == wsOnMessage(once, raw).store
    IN  Snapshot(twice) = Snapshot(once)

\* C4: an incident whose end has been applied (and that was not started
\* again) has no entry in emergencies, and emergencies never holds more
\* entries than there are incidents started and not yet ended.
EndRemovesIncident ==
  /\ \A k \in IncidentIds :
       (endIdx[k] > 0 /\ ~active[k]) => EntriesFor(emergencies, k) = {}
  /\ Len(emergencies) <= Cardinality({k \in IncidentIds : active[k]})

\* C5: end dominance: when an end of incident k has been applied, a start
\* of k that is applied afterwards and carries a lower arrival index (every
\* start index is below EndIdx) leaves k absent from emergencies.
EndDominance ==
  [][\A k \in IncidentIds :
       (endIdx[k] > 0 /\ ~active[k] /\ active'[k])
          => EntriesFor(emergencies', k) = {}]_vars

\* C6: between the first start of an incident and its end the siren play
\* call is made exactly once: a start of an incident that is already active
\* makes no further play call.
BeginOncePerIncident ==
  \A k \in IncidentIds : begins[k] = (IF active[k] THEN 1 ELSE 0)

\* C7: applying the end of a started incident makes exactly one siren stop
\* call, after the play call.
EndStopsSirenOnce ==
  [][\A k \in IncidentIds :
       (active[k] /\ ~active'[k])
          => (sirenPlays >= 1 /\ sirenStops' = sirenStops + 1)]_vars

\* C8: the react-use-websocket connection makes at most reconnectAttempts
\* attempts after a close, each scheduled with the same reconnectInterval;
\* once the attempts are used up the connection is closed, stays closed and
\* no further attempt is made.
Exhausted == readyState = "closed" /\ reconnectCount >= reconnectAttempts
MalformedDropped ==
  [][lastEvent' = "malformed" =>
       /\ UNCHANGED <<storeVars, audioVars>>
       /\ uncaught' = uncaught
       /\ UNCHANGED <<wsVars, readyState>>]_vars

\* C10: a well-formed message with an unrecognised type tag changes none of
\* vehicles, trafficLights and emergencies, makes no sound call, raises
\* nothing and leaves the sockets as they are for the messages that follow.
UnknownTypeIgnored ==
  [][lastEvent' = UnknownMsg.type =>
       /\ UNCHANGED <<vehicles, trafficLights, emergencies>>
       /\ UNCHANGED <<sirenPlays, sirenStops, trafficSoundOn>>
       /\ uncaught' = uncaught
       /\ UNCHANGED wsVars]_vars
UnknownTypeIgnoredWitness ==
  /\ lastEvent = UnknownMsg.type
  /\ vehicles # <<>>
  /\ emergencies # <<>>
  /\ moduleWs = "open"


\* C11: a vehicle update that lacks its identifier, a coordinate or its speed
\* is rejected: no entity with an undefined identifier, position or speed is
\* ever stored.
NoUndefinedFieldStored ==
  \A j \in 1..Len(vehicles) :
    /\ vehicles[j].id # Undef
    /\ vehicles[j].position[1] # Undef
    /\ vehicles[j].position[2] # Undef
    /\ vehicles[j].speed # Undef


\* C12: the listeners of the store are notified by the handling of a message
\* exactly when that handling changed vehicles, trafficLights or emergencies.
NotifiedIffChanged ==
  [][lastEvent' # "none" =>
       ((notified' > 0) <=>
          (<<vehicles, trafficLights, emergencies>>'
              # <<vehicles, trafficLights, emergencies>>))]_vars


\* C13: when App unmounts, every socket the application opened is closed, so
\* that no message handler can run afterwards (a handler runs only on an
\* open socket).
TeardownClosesEverySocket ==
  [][(hookWs # "none" /\ hookWs' = "none") =>
       (moduleWs' # "open" /\ hookWs' # "open")]_vars

\* C14: at any time at most one socket is open and delivering messages to
\* the store.
AtMostOneOpenSocket ==
  Cardinality({w \in {"module", "hook"} :
                 (w = "module" /\ moduleWs = "open")
                   \/ (w = "hook" /\ hookWs = "open")}) <= 1


\* C15: the first event that names an identifier creates the entity: after a
\* traffic_light event the snapshot holds a light with the event's identifier
\* and a phase such an event carries; after a vehicle_update it holds a
\* vehicle, after an emergency_start an incident.
FirstEventCreates ==
  /\ lastEvent = "traffic_light" =>
       \E j \in 1..Len(trafficLights) :
         /\ trafficLights[j].id \in LightIds
         /\ trafficLights[j].state \in {m.state : m \in TrafficLightMsgs}
  /\ lastEvent = "vehicle_update" =>
       \E j \in 1..Len(vehicles) : vehicles[j].id \in VehicleIds
  /\ lastEvent = "emergency_start" =>
       \E j \in 1..Len(emergencies) : emergencies[j].id \in IncidentIds


\* C16: a vehicle or a light whose identifier is in the snapshot is still in
\* it after every later step, whatever the event.
IdSet(seq) == {seq[j].id : j \in 1..Len(seq)}
EntitiesStay ==
  [][/\ IdSet(vehicles) \subseteq IdSet(vehicles')
     /\ IdSet(trafficLights) \subseteq IdSet(trafficLights')]_vars
EntitiesStayWitness ==
  /\ IdSet(vehicles) = VehicleIds
  /\ IdSet(trafficLights) = {3, 4}
  /\ emergencies # <<>>
  /\ lastEvent = "traffic_light"

\* C17: an array a consumer obtained from the store is never modified by
\* the handling of a later event: as long as the consumer holds it, it has
\* the content it had when it was read (every case builds a new array)
StateHasItsArrays == \A c \in Collections : heap[c][refs[c]] = Store[c]
HeldArrayNeverModified ==
  [][\A c \in Collections :
       (held[c] # 0 /\ held'[c] = held[c])
          => heap'[c][held[c]] = heap[c][held[c]]]_vars
HeldArrayNeverModifiedWitness ==
  /\ \A c \in Collections : held[c] # 0 /\ held[c] # refs[c]
  /\ heap.vehicles[held.vehicles] = <<>> /\ Len(vehicles) = 2
  /\ heap.trafficLights[held.trafficLights] # trafficLights
  /\ Len(heap.trafficLights[held.trafficLights]) = 2
  /\ Len(heap.emergencies[held.emergencies]) = 1 /\ Len(emergencies) = 2

\* C18: the handling of two messages never interleaves: at most one
\* onmessage is between entry and return at any time, and the store changes
\* only in the step in which a handler runs to its end, so every run is a
\* sequence of whole handlers
Running == {w \in Sockets : entered[w] # Idle}
HandlersNeverInterleave ==
  /\ Cardinality(Running) <= 1
  /\ \A w \in Running : SocketState(w) = "open"
HandlersNeverInterleaveWitness ==
  /\ moduleWs = "open" /\ hookWs = "open"
  /\ entered["hook"] = JsonText(VehicleUpdate(7, 2))
  /\ IdSet(vehicles) = VehicleIds /\ emergencies # <<>>

\* C19: an event changes only the collection of its own tag and none
\* changes congestion, avgSpeed or isSimulationActive; toggleSimulation
\* changes none of the three collections
OnlyOwnCollection ==
  [][/\ lastEvent' = "vehicle_update" => UNCHANGED <<trafficLights, emergencies>>
     /\ lastEvent' = "traffic_light" => UNCHANGED <<vehicles, emergencies>>
     /\ lastEvent' = "emergency_start" => UNCHANGED <<vehicles, trafficLights>>
     /\ lastEvent' # "none"
          => UNCHANGED <<congestion, avgSpeed, isSimulationActive>>
     /\ isSimulationActive' # isSimulationActive
          => UNCHANGED <<vehicles, trafficLights, emergencies>>]_vars
OnlyOwnCollectionWitness ==
  /\ lastEvent = "traffic_light"
  /\ \E j \in 1..Len(trafficLights) :
       trafficLights[j].id = 3 /\ trafficLights[j].state = "green"
  /\ \E j \in 1..Len(trafficLights) : trafficLights[j].id = 4
  /\ IdSet(vehicles) = VehicleIds /\ emergencies # <<>>
  /\ isSimulationActive /\ avgSpeed = InitialAvgSpeed

\* C20: in the first store version every well-formed vehicle_update
\* delivered to the hook's onMessage is decoded and applied: after it the
\* vehicle is present in vehicles and no exception left the callback
DecodedAndApplied ==
  [][lastEvent' = "vehicle_update" =>
       /\ uncaught' = uncaught
       /\ vehicles' # <<>>]_vars

\* C21: after any number of toggleSimulation calls from the initial state
\* the traffic sound is playing exactly when isSimulationActive is true,
\* and isSimulationActive is true exactly when the number of calls is odd
SoundFollowsSimulation ==
  /\ trafficSoundOn <=> isSimulationActive
  /\ isSimulationActive <=> (calls % 2 = 1)
SoundFollowsSimulationWitness ==
  /\ calls = 3 /\ isSimulationActive /\ trafficSoundOn
  /\ vehicles # <<>> /\ emergencies # <<>>

\* C22: a traffic_light event for an identifier present in trafficLights
\* sets only that light's state: its identifier and position are kept, every
\* other light is unchanged, and the length and order of the list are kept
LightStateOnly ==
  [][lastEvent' = "traffic_light" =>
       \E d \in TrafficLightMsgs :
         /\ Len(trafficLights') = Len(trafficLights)
         /\ \A j \in 1..Len(trafficLights) :
              IF trafficLights[j].id = d.id
                THEN /\ trafficLights'[j].id = trafficLights[j].id
                     /\ trafficLights'[j].position = trafficLights[j].position
                     /\ trafficLights'[j].state = d.state
                ELSE trafficLights'[j] = trafficLights[j]]_vars
LightStateOnlyWitness ==
  /\ lastEvent = "traffic_light"
  /\ trafficLights = <<Light(4, <<1, 0>>, "yellow"), Light(3, <<0, 0>>, "red")>>
  /\ vehicles # <<>>

====
